---------------------------- MODULE Spec2Model ----------------------------
(***************************************************************************)
(* AccessWAI: the upload route of the analysis API (routes/analysis.js),   *)
(* the scanner, the suggestion generator and its deterministic fallback    *)
(* (controllers/analysisController.js).                                    *)
(*                                                                         *)
(* A source line is modelled by what the scanner's regular expressions     *)
(* find in it: `facts' is the set of regular-expression tests that         *)
(* succeed on the line, `heading' the level captured by /<h([1-6])/i (0    *)
(* when it does not match), `text' the trimmed text and `pad' whether the  *)
(* raw line carries leading or trailing white space.                       *)
(*                                                                         *)
(* Numbers that JavaScript keeps as doubles with a fractional part of .0   *)
(* or .5 are kept as integers counting halves (suffix 2: value times two). *)
(***************************************************************************)
EXTENDS Integers, Sequences, FiniteSets, TLC

VARIABLES
    apiKey,         \* process.env.GEMINI_API_KEY: "absent", "empty" or "set"
    upload,         \* the request as multer hands it over: file, validZip, entries
    pc,             \* position of the upload handler
    files,          \* const files = [] ... (analysis.js:60)
    issues,         \* const issues = analyzeAccessibility(files)
    summary,        \* const summary = {critical, high, medium, low}
    score,          \* const accessibilityScore (before rounding), in halves
    aiService,      \* what the pending generateContent call will do
    aiCalls,        \* number of generateContent requests issued
    aiSuggestions,  \* const aiSuggestions = await getAISuggestions(...)
    scans,          \* number of analyzeAccessibility invocations
    creates,        \* number of Analysis.create invocations
    db,             \* the Analysis collection
    unlinks,        \* number of fs.unlink(req.file.path) calls issued
    suggests,       \* number of getAISuggestions invocations
    prompt,         \* the prompt handed to generateContent
    doc,            \* the document handed to Analysis.create
    response,       \* what res.status(..).json(..) sent
    reqs,           \* the upload requests in flight together, each with its state
    disk,           \* os.tmpdir()/uploads: what each path holds
    request,        \* the request a route of the analysis router handled last
    user,           \* AuthProvider: the user state
    localStorage,   \* AuthProvider: window.localStorage
    lastLogin,      \* the argument of the most recent login call, if any
    analyses,       \* History: the analyses state (the displayed list)
    loading,        \* the loading state of the mounted component
    deletes         \* History: the handleDelete calls awaiting their fetch

vars == <<apiKey, upload, pc, files, issues, summary, score, aiService,
          aiCalls, aiSuggestions, scans, creates, db, unlinks, suggests,
          prompt, doc, response, reqs, disk, request, user, localStorage,
          lastLogin, analyses, loading, deletes>>

\* the state of the AuthProvider and History components
clientVars == <<user, localStorage, lastLogin, analyses, loading, deletes>>

\* the state of the requests in flight together
concVars == <<reqs, disk>>

\* the state of the single upload request
handlerVars == <<upload, pc, files, issues, summary, score, aiService,
                 aiCalls, aiSuggestions, scans, creates, unlinks, suggests,
                 prompt, doc, response>>

(***************************************************************************)
(* Bounds of the model.                                                    *)
(***************************************************************************)
MaxEntries == 2     \* entries in an uploaded archive
MaxCount == 11      \* issues of one severity in a summary (SpecScore)
MaxMillis == 2      \* values of Date.now() while uploads arrive (SpecConc)
MaxLines == 4       \* lines of a scanned file body (SpecScan)
MaxAnalyses == 3    \* analyses ever stored (SpecStore, SpecHistory)
MaxDeletes == 3     \* handleDelete calls on the History page (SpecHistory)

(***************************************************************************)
(* Program constants.                                                      *)
(***************************************************************************)
HeadingCutoff == 50         \* headingLevel > 2 && index < 50
TopLimit == 3               \* .slice(0, 3)
SampleLimit == 6            \* issues.slice(0, 6)

\* enum: ['critical', 'high', 'medium', 'low'] of issueSchema.severity
Severities == {"critical", "high", "medium", "low"}

(***************************************************************************)
(* Source lines.                                                           *)
(***************************************************************************)
Line(text, pad, facts, heading) ==
    [text |-> text, pad |-> pad, facts |-> facts, heading |-> heading]

Blank    == Line("", FALSE, {}, 0)
Para     == Line("<p>Hello</p>", TRUE, {}, 0)
Img      == Line("<img src=x.png>", FALSE, {"imgNoAlt"}, 0)
EmptyAlt == Line("<img alt='' src=x.png>", FALSE, {"imgEmptyAltSrc"}, 0)
Decor    == Line("<img alt='' src=x.png class=decorative>", FALSE,
                 {"imgEmptyAltSrc", "decorative"}, 0)
Input    == Line("<input type=text name=n>", FALSE, {"inputNoAria"}, 0)
Hidden   == Line("<input type=hidden name=t>", FALSE,
                 {"inputNoAria", "inputExcludedType"}, 0)
AriaInput == Line("<input aria-label=Name>", FALSE, {}, 0)
HiddenText == Line("<input type=hidden name=t><input type=text name=q>", FALSE,
                   {"inputNoAria", "inputExcludedType"}, 0)
Label    == Line("<label for=n>Name</label>", FALSE, {"label"}, 0)
H1       == Line("<h1>Title</h1>", FALSE, {}, 1)
H3       == Line("<h3>Section</h3>", TRUE, {}, 3)
H1H3     == Line("<h1>Title</h1><h3>Sub</h3>", FALSE, {}, 1)
Html     == Line("<html>", FALSE, {"htmlNoLang"}, 0)
DivBtn   == Line("<div role=button onclick=go()>", FALSE,
                 {"divOnclick", "divRoleButton", "divRole"}, 0)
Link     == Line("<a href=/x>click here</a>", FALSE, {"anchorVague"}, 0)
Nav      == Line("<div className=nav>", TRUE, {"divLandmarkClass"}, 0)
Busy     == Line("<html><h4>T</h4><img src=a><img alt='' src=b><button></button><input><div onclick=f() className=nav style=color:#fff><a>here</a>",
                 FALSE,
                 {"imgNoAlt", "imgEmptyAltSrc", "buttonEmpty", "inputNoAria",
                  "styleColor", "htmlNoLang", "divOnclick", "anchorVague",
                  "divLandmarkClass"}, 4)

\* n empty lines
Blanks(n) == [i \in 1..n |-> Blank]

\* line.trim()
Trim(line) == [text |-> line.text, pad |-> FALSE]

(***************************************************************************)
(* The rule catalog, in the order the scanner applies it.                  *)
(***************************************************************************)
RuleTypes ==
    << "Missing Alt Text", "Empty Alt Text", "Button Without Text",
       "Missing Form Label", "Potential Color Contrast Issue",
       "Heading Hierarchy", "Missing Language Attribute",
       "Non-Semantic Interactive Element", "Non-Descriptive Link Text",
       "Missing ARIA Landmark" >>

NumRules == Len(RuleTypes)

\* a severity outside the four for the colour rule
RuleSeverityUnknown(r) ==
    << "critical", "medium", "high", "high", "moderate",
       "low", "high", "high", "medium", "low" >>[r]

\* severity: of each issues.push, by rule
RuleSeverity(r) ==
    << "critical", "medium", "high", "high", "medium",
       "low", "high", "high", "medium", "low" >>[r]

\* the position of a rule in the catalog
RuleIndex(type) == CHOOSE r \in 1..NumRules : RuleTypes[r] = type

\* /<img(?![^>]*alt=)/i.test(line)
MissingAltText(line) == "imgNoAlt" \in line.facts

\* /<img[^>]*alt=""[^>]*src=/i.test(line) && !line.includes("decorative")
EmptyAltText(line) ==
    "imgEmptyAltSrc" \in line.facts /\ "decorative" \notin line.facts

\* /<button[^>]*>[\s]*<\/button>/i.test(line) || /<button[^>]*><i /i.test(line)
ButtonWithoutText(line) ==
    "buttonEmpty" \in line.facts \/ "buttonIcon" \in line.facts

\* lines.slice(start, end): the elements at 0-based positions start..end-1
Slice(seq, start, end) ==
    LET hi == IF end < Len(seq) THEN end ELSE Len(seq)
    IN  IF start >= hi THEN <<>> ELSE [i \in 1..(hi - start) |-> seq[start + i]]

MaxOf(a, b) == IF a >= b THEN a ELSE b

\* lines.slice(Math.max(0, index - 2), index + 3).some((l) => /<label/i.test(l))
HasLabel(lines, index) ==
    LET window == Slice(lines, MaxOf(0, index - 2), index + 3)
    IN  \E k \in 1..Len(window) : "label" \in window[k].facts

\* the <input> test, the type exclusion and the label window (index is 0-based)
MissingFormLabel(lines, index) ==
    LET line == lines[index + 1]
    IN  /\ "inputNoAria" \in line.facts
        /\ "inputExcludedType" \notin line.facts
        /\ ~HasLabel(lines, index)

\* /style=["'][^"']*color:\s*#?([a-f0-9]{3}|[a-f0-9]{6})/i.test(line)
ColorContrast(line) == "styleColor" \in line.facts

\* /<h([1-6])/i.test(line), then headingLevel > 2 && index < 50
HeadingHierarchy(line, index) ==
    /\ line.heading # 0
    /\ line.heading > 2
    /\ index < HeadingCutoff

\* /<html(?![^>]*lang=)/i.test(line)
MissingLanguage(line) == "htmlNoLang" \in line.facts

\* /<div[^>]*onclick=/i.test(line) && !/<div[^>]*role=["']button/i.test(line)
NonSemanticInteractive(line) ==
    "divOnclick" \in line.facts /\ "divRoleButton" \notin line.facts

\* /<a[^>]*>[\s]*(click here|read more|here|more)[\s]*<\/a>/i.test(line)
NonDescriptiveLink(line) == "anchorVague" \in line.facts

\* /<div[^>]*className=["'][^"']*(header|nav|main|footer)/i && !/<div[^>]*role=/i
MissingLandmark(line) ==
    "divLandmarkClass" \in line.facts /\ "divRole" \notin line.facts

\* whether rule r fires on lines[index] (index 0-based, as in lines.forEach)
RuleFires(r, lines, index) ==
    LET line == lines[index + 1]
    IN  CASE r = 1 -> MissingAltText(line)
          [] r = 2 -> EmptyAltText(line)
          [] r = 3 -> ButtonWithoutText(line)
          [] r = 4 -> MissingFormLabel(lines, index)
          [] r = 5 -> ColorContrast(line)
          [] r = 6 -> HeadingHierarchy(line, index)
          [] r = 7 -> MissingLanguage(line)
          [] r = 8 -> NonSemanticInteractive(line)
          [] r = 9 -> NonDescriptiveLink(line)
          [] r = 10 -> MissingLandmark(line)

\* description: fixed per rule, except `H${headingLevel} used early ...`
RuleDescription(r, line) ==
    IF r = 6 THEN <<RuleTypes[r], line.heading>> ELSE <<RuleTypes[r], 0>>

\* issues.push({severity, type, file, line, description, suggestion, code});
\* fileIndex is not a field of the program's object: it records the position
\* in `files' of the file the issue came from
MakeIssue(r, file, fileIndex, lines, index) ==
    [severity    |-> RuleSeverity(r),
     type        |-> RuleTypes[r],
     file        |-> file.name,
     line        |-> index + 1,
     description |-> RuleDescription(r, lines[index + 1]),
     suggestion  |-> r,
     code        |-> Trim(lines[index + 1]),
     fileIndex   |-> fileIndex]

Hit(r, file, fileIndex, lines, index) ==
    IF RuleFires(r, lines, index)
    THEN << MakeIssue(r, file, fileIndex, lines, index) >>
    ELSE << >>

\* the ten checks with the heading check moved to the front
ScanLineHeadingFirst(file, fileIndex, lines, index) ==
    Hit(6, file, fileIndex, lines, index) \o Hit(1, file, fileIndex, lines, index)
    \o Hit(2, file, fileIndex, lines, index) \o Hit(3, file, fileIndex, lines, index)
    \o Hit(4, file, fileIndex, lines, index) \o Hit(5, file, fileIndex, lines, index)
    \o Hit(7, file, fileIndex, lines, index) \o Hit(8, file, fileIndex, lines, index)
    \o Hit(9, file, fileIndex, lines, index) \o Hit(10, file, fileIndex, lines, index)

RECURSIVE FirstHitFrom(_, _, _, _, _)
\* the first check from r on that succeeds, as an else-if chain would give
FirstHitFrom(r, file, fileIndex, lines, index) ==
    IF r > NumRules THEN << >>
    ELSE IF RuleFires(r, lines, index)
         THEN << MakeIssue(r, file, fileIndex, lines, index) >>
         ELSE FirstHitFrom(r + 1, file, fileIndex, lines, index)

\* the ten checks chained so that at most one issue is pushed for a line
ScanLineFirstHitOnly(file, fileIndex, lines, index) ==
    FirstHitFrom(1, file, fileIndex, lines, index)

\* the body of lines.forEach: the ten checks in source order
ScanLine(file, fileIndex, lines, index) ==
    Hit(1, file, fileIndex, lines, index) \o Hit(2, file, fileIndex, lines, index)
    \o Hit(3, file, fileIndex, lines, index) \o Hit(4, file, fileIndex, lines, index)
    \o Hit(5, file, fileIndex, lines, index) \o Hit(6, file, fileIndex, lines, index)
    \o Hit(7, file, fileIndex, lines, index) \o Hit(8, file, fileIndex, lines, index)
    \o Hit(9, file, fileIndex, lines, index) \o Hit(10, file, fileIndex, lines, index)

RECURSIVE ScanLinesFrom(_, _, _, _)
\* lines.forEach((line, index) => ...) from position index on
ScanLinesFrom(file, fileIndex, lines, index) ==
    IF index >= Len(lines) THEN << >>
    ELSE ScanLine(file, fileIndex, lines, index)
         \o ScanLinesFrom(file, fileIndex, lines, index + 1)

RECURSIVE ScanFilesFrom(_, _)
\* files.forEach((file) => ...) from position fileIndex on (1-based)
ScanFilesFrom(fileList, fileIndex) ==
    IF fileIndex > Len(fileList) THEN << >>
    ELSE ScanLinesFrom(fileList[fileIndex], fileIndex, fileList[fileIndex].content, 0)
         \o ScanFilesFrom(fileList, fileIndex + 1)

\* file.content.split("\n") is kept as the sequence of lines in file.content
analyzeAccessibility(fileList) == ScanFilesFrom(fileList, 1)

(***************************************************************************)
(* Summary and score (routes/analysis.js).                                 *)
(***************************************************************************)
\* issues.filter((i) => i.severity === sev).length
CountSeverity(issueList, sev) ==
    Cardinality({k \in 1..Len(issueList) : issueList[k].severity = sev})

\* const summary = { critical: ..., high: ..., medium: ..., low: ... }
Summarize(issueList) ==
    [critical |-> CountSeverity(issueList, "critical"),
     high     |-> CountSeverity(issueList, "high"),
     medium   |-> CountSeverity(issueList, "medium"),
     low      |-> CountSeverity(issueList, "low")]

\* the deduction with a low issue weighing a whole point, in halves
DeductionLowWhole2(s) == 20 * s.critical + 10 * s.high + 4 * s.medium + 2 * s.low

\* summary.critical * 10 + summary.high * 5 + summary.medium * 2 + summary.low * 0.5,
\* in halves
Deduction2(s) == 20 * s.critical + 10 * s.high + 4 * s.medium + s.low

\* the score without Math.max(0, ...)
RawScoreUnclamped2(s) == 200 - Deduction2(s)

\* Math.max(0, 100 - (...)), in halves
RawScore2(s) == MaxOf(0, 200 - Deduction2(s))

\* Math.floor in place of Math.round
MathFloor2(x2) == x2 \div 2

\* Math.round(x) for x = x2 / 2: the integer nearest to x, a tie going up
MathRound2(x2) == (x2 + 1) \div 2

(***************************************************************************)
(* The deterministic fallback (generateFallbackSuggestions).  A narrative  *)
(* string is the sequence of its segments; the empty string is << >>.      *)
(***************************************************************************)
EmptyString == << >>

\* issues.filter(pred).slice(0, n)
FirstOf(seq, n) == Slice(seq, 0, n)

IssuesOfSeverity(issueList, sev) ==
    SelectSeq(issueList, LAMBDA i : i.severity = sev)

RECURSIVE DistinctFrom(_, _, _)
\* the types from position k on that are not in seen, each once
DistinctFrom(issueList, k, seen) ==
    IF k > Len(issueList) THEN << >>
    ELSE IF issueList[k].type \in seen
         THEN DistinctFrom(issueList, k + 1, seen)
         ELSE << issueList[k].type >>
              \o DistinctFrom(issueList, k + 1, seen \cup {issueList[k].type})

\* [...new Set(issues.map((i) => i.type))]: each type once, by first occurrence
IssueTypes(issueList) == DistinctFrom(issueList, 1, {})

Includes(seq, x) == \E k \in 1..Len(seq) : seq[k] = x

\* the overall-assessment line without the test for an empty issue list
AssessmentNoEmptyCase(issueList) ==
    LET s == Summarize(issueList)
    IN  IF s.critical > 0
        THEN [seg |-> "assessment", branch |-> "Attention Required",
              count |-> s.critical, plural |-> s.critical > 1]
        ELSE IF s.high > 0
        THEN [seg |-> "assessment", branch |-> "Good Progress",
              count |-> s.high, plural |-> s.high > 1]
        ELSE [seg |-> "assessment", branch |-> "Looking Good", count |-> 0,
              plural |-> FALSE]

\* the overall-assessment line with the high-priority test before the critical one
AssessmentHighFirst(issueList) ==
    LET s == Summarize(issueList)
    IN  IF Len(issueList) = 0
        THEN [seg |-> "assessment", branch |-> "Great news!", count |-> 0,
              plural |-> FALSE]
        ELSE IF s.high > 0
        THEN [seg |-> "assessment", branch |-> "Good Progress",
              count |-> s.high, plural |-> s.high > 1]
        ELSE IF s.critical > 0
        THEN [seg |-> "assessment", branch |-> "Attention Required",
              count |-> s.critical, plural |-> s.critical > 1]
        ELSE [seg |-> "assessment", branch |-> "Looking Good", count |-> 0,
              plural |-> FALSE]

\* the overall-assessment line
Assessment(issueList) ==
    LET s == Summarize(issueList)
    IN  IF Len(issueList) = 0
        THEN [seg |-> "assessment", branch |-> "Great news!", count |-> 0,
              plural |-> FALSE]
        ELSE IF s.critical > 0
        THEN [seg |-> "assessment", branch |-> "Attention Required",
              count |-> s.critical, plural |-> s.critical > 1]
        ELSE IF s.high > 0
        THEN [seg |-> "assessment", branch |-> "Good Progress",
              count |-> s.high, plural |-> s.high > 1]
        ELSE [seg |-> "assessment", branch |-> "Looking Good", count |-> 0,
              plural |-> FALSE]

\* the two lists joined without the last slice
TopIssuesNoFinalSlice(issueList) ==
    FirstOf(IssuesOfSeverity(issueList, "critical"), TopLimit)
    \o FirstOf(IssuesOfSeverity(issueList, "high"), TopLimit)

\* const topIssues = [...criticalIssues, ...highIssues].slice(0, 3)
TopIssues(issueList) ==
    FirstOf(FirstOf(IssuesOfSeverity(issueList, "critical"), TopLimit)
            \o FirstOf(IssuesOfSeverity(issueList, "high"), TopLimit),
            TopLimit)

\* the priority list, or the sentence that there is none
PriorityFixes(issueList) ==
    LET top == TopIssues(issueList)
    IN  IF Len(top) > 0
        THEN [k \in 1..Len(top) |->
                [seg |-> "priority", idx |-> k, type |-> top[k].type,
                 severity |-> top[k].severity, file |-> top[k].file,
                 suggestion |-> top[k].suggestion]]
        ELSE << [seg |-> "noPriority"] >>

\* the quick-win checklist, gated by the issue types present
QuickWins(issueList) ==
    LET types == IssueTypes(issueList)
        Win(type) == IF Includes(types, type)
                     THEN << [seg |-> "quickWin", type |-> type] >>
                     ELSE << >>
        wins == Win("Missing Alt Text") \o Win("Missing Form Label")
                \o Win("Missing Language Attribute") \o Win("Button Without Text")
    IN  IF Len(wins) > 0 THEN wins ELSE << [seg |-> "noQuickWins"] >>

\* generateFallbackSuggestions(issues)
generateFallbackSuggestions(issueList) ==
    << [seg |-> "summaryHeader"], Assessment(issueList),
       [seg |-> "priorityHeader"] >>
    \o PriorityFixes(issueList)
    \o << [seg |-> "quickWinsHeader"] >>
    \o QuickWins(issueList)
    \o << [seg |-> "longTerm"], [seg |-> "resources"], [seg |-> "closing"] >>

(***************************************************************************)
(* getAISuggestions.  The call runs synchronously up to                    *)
(* `await model.generateContent(prompt)' and resumes when that promise     *)
(* settles.  A completion says whether the async function resolved         *)
(* (raised = FALSE) with `value' or rejected (raised = TRUE).              *)
(***************************************************************************)
\* a non-empty text produced by the service
AINarrative == << [seg |-> "ai"] >>

\* what the external library does with one call: resolve with text, resolve
\* with the empty text, resolve with an object whose response.text() throws,
\* reject, never settle, or throw before any request is made
AIFates == {"text", "empty", "malformed", "reject", "hang", "throws"}

Resolved(value) == [raised |-> FALSE, value |-> value]
Rejected == [raised |-> TRUE, value |-> EmptyString]

\* the credential check left out
CredentialNeverMissing(key) == FALSE

\* !process.env.GEMINI_API_KEY
CredentialMissing(key) == key \in {"absent", "empty"}

\* the prompt with its sample taken by severity, the most severe first
BuildPromptBySeverity(issueList) ==
    [total        |-> Len(issueList),
     critical     |-> CountSeverity(issueList, "critical"),
     high         |-> CountSeverity(issueList, "high"),
     medium       |-> CountSeverity(issueList, "medium"),
     low          |-> CountSeverity(issueList, "low"),
     issueTypes   |-> IssueTypes(issueList),
     sampleIssues |-> FirstOf(IssuesOfSeverity(issueList, "critical")
                              \o IssuesOfSeverity(issueList, "high")
                              \o IssuesOfSeverity(issueList, "medium")
                              \o IssuesOfSeverity(issueList, "low"),
                              SampleLimit)]

\* const summary = {total, critical, high, medium, low, issueTypes, sampleIssues}
\* and the prompt built from it
BuildPrompt(issueList) ==
    [total        |-> Len(issueList),
     critical     |-> CountSeverity(issueList, "critical"),
     high         |-> CountSeverity(issueList, "high"),
     medium       |-> CountSeverity(issueList, "medium"),
     low          |-> CountSeverity(issueList, "low"),
     issueTypes   |-> IssueTypes(issueList),
     sampleIssues |-> FirstOf(issueList, SampleLimit)]

NoPrompt == [total |-> -1]

\* the resumption without the catch block
ResumeWithoutCatch(fate, issueList) ==
    CASE fate = "text"  -> Resolved(AINarrative)
      [] fate = "empty" -> Resolved(EmptyString)
      [] OTHER          -> Rejected

\* from the settling of generateContent to the return: result.response.text()
\* verbatim, or the catch block's generateFallbackSuggestions(issues)
GetAISuggestionsResume(fate, issueList) ==
    CASE fate = "text"      -> Resolved(AINarrative)
      [] fate = "empty"     -> Resolved(EmptyString)
      [] fate = "malformed" -> Resolved(generateFallbackSuggestions(issueList))
      [] fate = "reject"    -> Resolved(generateFallbackSuggestions(issueList))

(***************************************************************************)
(* The uploaded archive (zip.getEntries()) and the extraction loop.        *)
(***************************************************************************)
Name(stem, ext) == [stem |-> stem, ext |-> ext]

\* the extension in lower case (the /i flag of the test)
ToLower(ext) ==
    CASE ext = "JSX"  -> "jsx"
      [] ext = "HTML" -> "html"
      [] OTHER        -> ext

\* /\.(html|jsx|js|tsx|ts)$/i.test(entry.entryName)
ExtensionMatches(name) == ToLower(name.ext) \in {"html", "jsx", "js", "tsx", "ts"}

RECURSIVE AbortOnErrorFrom(_, _)
\* the extraction loop without the inner try/catch: the first entry whose
\* getData() throws ends the loop
AbortOnErrorFrom(entries, k) ==
    IF k > Len(entries) THEN << >>
    ELSE LET e == entries[k]
         IN  IF ~e.isDirectory /\ ExtensionMatches(e.entryName)
             THEN IF e.readable
                  THEN << [name |-> e.entryName, content |-> e.data] >>
                       \o AbortOnErrorFrom(entries, k + 1)
                  ELSE << >>
             ELSE AbortOnErrorFrom(entries, k + 1)

ExtractAbortOnError(entries) == AbortOnErrorFrom(entries, 1)

RECURSIVE ExtractFrom(_, _)
\* zipEntries.forEach((entry) => ...) from position k on: an entry whose
\* getData() throws is logged and skipped
ExtractFrom(entries, k) ==
    IF k > Len(entries) THEN << >>
    ELSE LET e == entries[k]
         IN  (IF ~e.isDirectory /\ ExtensionMatches(e.entryName) /\ e.readable
              THEN << [name |-> e.entryName, content |-> e.data] >>
              ELSE << >>)
             \o ExtractFrom(entries, k + 1)

\* the files list built from zip.getEntries()
ExtractFiles(entries) == ExtractFrom(entries, 1)

\* the empty-list check left out
NeverEmpty(fileList) == FALSE

\* files.length === 0
NoFiles(fileList) == Len(fileList) = 0

(***************************************************************************)
(* The requests the model draws from.                                      *)
(***************************************************************************)
\* file contents, each the sequence of its lines (content.split("\n"))
Contents ==
    { << Blank >>,
      << Img >>,
      << Busy, H3 >>,
      << Input, Para, Label, Blank, Blank, Input, Hidden, EmptyAlt, Decor,
         Html, DivBtn, Nav, Link >>,
      << H3, H1 >> \o Blanks(HeadingCutoff - 3) \o << H3, H3 >> }

SourceNames == { Name("index", "html"), Name("App", "JSX") }

\* the entries of an archive: a directory, a file the filter rejects, a source
\* file whose getData() throws, a readable source file
Entries ==
    { [entryName |-> Name("src/", ""), isDirectory |-> TRUE, readable |-> TRUE,
       data |-> << >>],
      [entryName |-> Name("style", "css"), isDirectory |-> FALSE,
       readable |-> TRUE, data |-> << Img >>] }
    \cup { [entryName |-> n, isDirectory |-> FALSE, readable |-> FALSE,
            data |-> << >>] : n \in SourceNames }
    \cup { [entryName |-> n, isDirectory |-> FALSE, readable |-> TRUE,
            data |-> c] : n \in SourceNames, c \in Contents }

Archives == UNION { [1..n -> Entries] : n \in 0..MaxEntries }

\* req.file absent, a file AdmZip rejects, or a ZIP archive
Uploads ==
    { [file |-> FALSE, validZip |-> FALSE, entries |-> << >>],
      [file |-> TRUE, validZip |-> FALSE, entries |-> << >>] }
    \cup { [file |-> TRUE, validZip |-> TRUE, entries |-> a] : a \in Archives }

NoSummary == [critical |-> 0, high |-> 0, medium |-> 0, low |-> 0]

\* no request to the other routes and no page of the client
NoRequest == [method |-> "none"]
NoClient ==
    /\ request = NoRequest
    /\ user = << >>
    /\ localStorage = << >>
    /\ lastLogin = << >>
    /\ analyses = << >>
    /\ loading = FALSE
    /\ deletes = {}
NoDoc == [filesAnalyzed |-> -1]
NoResponse == [status |-> 0, body |-> [message |-> "none"]]

Init ==
    /\ apiKey \in {"absent", "empty", "set"}
    /\ upload \in Uploads
    /\ pc = "received"
    /\ files = << >>
    /\ issues = << >>
    /\ summary = NoSummary
    /\ score = 0
    /\ aiService = "notCalled"
    /\ aiCalls = 0
    /\ aiSuggestions = EmptyString
    /\ scans = 0
    /\ creates = 0
    /\ db = {}
    /\ unlinks = 0
    /\ suggests = 0
    /\ prompt = NoPrompt
    /\ doc = NoDoc
    /\ response = NoResponse
    /\ reqs = << >>
    /\ disk = << >>
    /\ NoClient

(***************************************************************************)
(* router.post("/upload").                                                 *)
(***************************************************************************)
\* res.status(code).json({ message })
ErrorResponse(code, message) == [status |-> code, body |-> [message |-> message]]

\* the document with only the sample of the issues
MakeDocSampleIssues(fileList, issueList, sm, sc2, narrative) ==
    [filesAnalyzed      |-> Len(fileList),
     issues             |-> FirstOf(issueList, SampleLimit),
     summary            |-> sm,
     accessibilityScore |-> MathRound2(sc2),
     aiSuggestions      |-> narrative]

\* the argument of Analysis.create
MakeDoc(fileList, issueList, sm, sc2, narrative) ==
    [filesAnalyzed      |-> Len(fileList),
     issues             |-> issueList,
     summary            |-> sm,
     accessibilityScore |-> MathRound2(sc2),
     aiSuggestions      |-> narrative]

\* the handler from the completion of getAISuggestions to its next await: the
\* call of Analysis.create, or the catch block when the call rejected
AfterSuggestions(result, fileList, issueList, sm, sc2) ==
    IF result.raised
    THEN /\ response' = ErrorResponse(500, "Error analyzing project")
         /\ pc' = "done"
         /\ UNCHANGED <<aiSuggestions, doc, creates>>
    ELSE /\ aiSuggestions' = result.value
         /\ doc' = MakeDoc(fileList, issueList, sm, sc2, result.value)
         /\ creates' = creates + 1
         /\ pc' = "awaitCreate"
         /\ UNCHANGED response

\* if (!req.file) return res.status(400)...
UploadNoFile ==
    /\ UNCHANGED <<concVars, request, clientVars>>
    /\ pc = "received"
    /\ ~upload.file
    /\ response' = ErrorResponse(400, "Please upload a project file")
    /\ pc' = "done"
    /\ UNCHANGED <<apiKey, upload, files, issues, summary, score, aiService,
                   aiCalls, aiSuggestions, scans, creates, db, unlinks,
                   suggests, prompt, doc>>

\* new AdmZip(req.file.path) throws
UploadInvalidZip ==
    /\ UNCHANGED <<concVars, request, clientVars>>
    /\ pc = "received"
    /\ upload.file
    /\ ~upload.validZip
    /\ response' = ErrorResponse(400, "Invalid ZIP file")
    /\ pc' = "done"
    /\ UNCHANGED <<apiKey, upload, files, issues, summary, score, aiService,
                   aiCalls, aiSuggestions, scans, creates, db, unlinks,
                   suggests, prompt, doc>>

\* the extraction loop leaves files empty
UploadNoSourceFiles ==
    /\ UNCHANGED <<concVars, request, clientVars>>
    /\ pc = "received"
    /\ upload.file
    /\ upload.validZip
    /\ NoFiles(ExtractFiles(upload.entries))
    /\ files' = ExtractFiles(upload.entries)
    /\ response' = ErrorResponse(400, "No HTML/JSX/JS/TS/TSX files found in the ZIP")
    /\ pc' = "done"
    /\ UNCHANGED <<apiKey, upload, issues, summary, score, aiService, aiCalls,
                   aiSuggestions, scans, creates, db, unlinks, suggests,
                   prompt, doc>>

\* extraction, scan, summary and score; getAISuggestions returns the fallback
\* without a request (no credential, or the library throws before the request)
UploadAnalyzeNoRequest ==
    /\ UNCHANGED <<concVars, request, clientVars>>
    /\ pc = "received"
    /\ upload.file
    /\ upload.validZip
    /\ ~NoFiles(ExtractFiles(upload.entries))
    /\ LET fl == ExtractFiles(upload.entries)
           is == analyzeAccessibility(fl)
           sm == Summarize(is)
           sc == RawScore2(sm)
       IN  /\ files' = fl
           /\ issues' = is
           /\ summary' = sm
           /\ score' = sc
           /\ scans' = scans + 1
           /\ suggests' = suggests + 1
           /\ \/ /\ CredentialMissing(apiKey)
                 /\ UNCHANGED <<aiService, prompt>>
              \/ /\ ~CredentialMissing(apiKey)
                 /\ aiService' = "throws"
                 /\ prompt' = BuildPrompt(is)
           /\ AfterSuggestions(Resolved(generateFallbackSuggestions(is)),
                               fl, is, sm, sc)
    /\ UNCHANGED <<apiKey, upload, aiCalls, db, unlinks>>

\* extraction, scan, summary and score; getAISuggestions builds the prompt and
\* awaits model.generateContent(prompt)
UploadAnalyzeRequest ==
    /\ UNCHANGED <<concVars, request, clientVars>>
    /\ pc = "received"
    /\ upload.file
    /\ upload.validZip
    /\ ~NoFiles(ExtractFiles(upload.entries))
    /\ ~CredentialMissing(apiKey)
    /\ LET fl == ExtractFiles(upload.entries)
           is == analyzeAccessibility(fl)
           sm == Summarize(is)
       IN  /\ files' = fl
           /\ issues' = is
           /\ summary' = sm
           /\ score' = RawScore2(sm)
           /\ prompt' = BuildPrompt(is)
    /\ scans' = scans + 1
    /\ suggests' = suggests + 1
    /\ aiCalls' = aiCalls + 1
    /\ aiService' \in AIFates \ {"throws"}
    /\ pc' = "awaitAI"
    /\ UNCHANGED <<apiKey, upload, aiSuggestions, creates, db, unlinks, doc,
                   response>>

\* a catch block that calls generateContent once more after a rejection
SettlesWithRetry ==
    /\ UNCHANGED <<concVars, request, clientVars>>
    /\ pc = "awaitAI"
    /\ aiService # "hang"
    /\ IF aiService = "reject"
       THEN /\ aiCalls' = aiCalls + 1
            /\ aiService' \in {"text", "malformed"}
            /\ UNCHANGED <<pc, aiSuggestions, doc, creates, response>>
       ELSE /\ AfterSuggestions(GetAISuggestionsResume(aiService, issues),
                                files, issues, summary, score)
            /\ UNCHANGED <<aiService, aiCalls>>
    /\ UNCHANGED <<apiKey, upload, files, issues, summary, score, scans, db,
                   unlinks, suggests, prompt>>

\* the generateContent promise settles; getAISuggestions returns and the
\* handler goes on to Analysis.create
GenerateContentSettles ==
    /\ UNCHANGED <<concVars, request, clientVars>>
    /\ pc = "awaitAI"
    /\ aiService # "hang"
    /\ AfterSuggestions(GetAISuggestionsResume(aiService, issues),
                        files, issues, summary, score)
    /\ UNCHANGED <<apiKey, upload, files, issues, summary, score, aiService,
                   aiCalls, scans, db, unlinks, suggests, prompt>>

\* Analysis.create resolves: fs.unlink(req.file.path) and res.json(analysis)
CreateSucceeds ==
    /\ UNCHANGED <<concVars, request, clientVars>>
    /\ pc = "awaitCreate"
    /\ db' = db \cup {doc}
    /\ unlinks' = unlinks + 1
    /\ response' = [status |-> 200, body |-> doc]
    /\ pc' = "done"
    /\ UNCHANGED <<apiKey, upload, files, issues, summary, score, aiService,
                   aiCalls, aiSuggestions, scans, creates, suggests, prompt,
                   doc>>

\* a catch block that also removes the uploaded file
CreateFailsWithCleanup ==
    /\ UNCHANGED <<concVars, request, clientVars>>
    /\ pc = "awaitCreate"
    /\ unlinks' = unlinks + 1
    /\ response' = ErrorResponse(500, "Error analyzing project")
    /\ pc' = "done"
    /\ UNCHANGED <<apiKey, upload, files, issues, summary, score, aiService,
                   aiCalls, aiSuggestions, scans, creates, db, suggests,
                   prompt, doc>>

\* Analysis.create rejects: the catch block answers 500
CreateFails ==
    /\ UNCHANGED <<concVars, request, clientVars>>
    /\ pc = "awaitCreate"
    /\ response' = ErrorResponse(500, "Error analyzing project")
    /\ pc' = "done"
    /\ UNCHANGED <<apiKey, upload, files, issues, summary, score, aiService,
                   aiCalls, aiSuggestions, scans, creates, db, unlinks,
                   suggests, prompt, doc>>

Next ==
    \/ UploadNoFile
    \/ UploadInvalidZip
    \/ UploadNoSourceFiles
    \/ UploadAnalyzeNoRequest
    \/ UploadAnalyzeRequest
    \/ GenerateContentSettles
    \/ CreateSucceeds
    \/ CreateFails

Spec == Init /\ [][Next]_vars

\* the event loop resumes getAISuggestions once the generateContent promise
\* has settled (nothing makes a call that hangs settle), and the database
\* answers Analysis.create
FairSpec ==
    /\ Init /\ [][Next]_vars
    /\ WF_vars(GenerateContentSettles)
    /\ WF_vars(CreateSucceeds \/ CreateFails)

(***************************************************************************)
(* The score of a summary, for every summary within MaxCount.              *)
(***************************************************************************)
Summaries ==
    [critical : 0..MaxCount, high : 0..MaxCount, medium : 0..MaxCount,
     low : 0..MaxCount]

InitScore ==
    /\ apiKey = "absent"
    /\ upload = [file |-> TRUE, validZip |-> TRUE, entries |-> << >>]
    /\ pc = "scoring"
    /\ files = << >>
    /\ issues = << >>
    /\ summary \in Summaries
    /\ score = 0
    /\ aiService = "notCalled"
    /\ aiCalls = 0
    /\ aiSuggestions = EmptyString
    /\ scans = 0
    /\ creates = 0
    /\ db = {}
    /\ unlinks = 0
    /\ suggests = 0
    /\ prompt = NoPrompt
    /\ doc = NoDoc
    /\ response = NoResponse
    /\ reqs = << >>
    /\ disk = << >>
    /\ NoClient

\* analysis.js:95-115 on a given summary: the score and the document
ScoreSummary ==
    /\ UNCHANGED <<concVars, request, clientVars>>
    /\ pc = "scoring"
    /\ score' = RawScore2(summary)
    /\ doc' = MakeDoc(files, issues, summary, RawScore2(summary), aiSuggestions)
    /\ pc' = "scored"
    /\ UNCHANGED <<apiKey, upload, files, issues, summary, aiService, aiCalls,
                   aiSuggestions, scans, creates, db, unlinks, suggests,
                   prompt, response>>

NextScore == ScoreSummary

SpecScore == InitScore /\ [][NextScore]_vars

(***************************************************************************)
(* Properties.                                                             *)
(***************************************************************************)
Fallback == generateFallbackSuggestions(issues)

\* an entry the extraction loop tries to read
IsSourceEntry(e) ==
    ~e.isDirectory /\ e.entryName.ext \in {"html", "HTML", "jsx", "JSX", "js", "tsx", "ts"}

\* the files of the entries that could be read, in archive order
ReadableFiles(entries) ==
    LET ok == SelectSeq(entries, LAMBDA e : IsSourceEntry(e) /\ e.readable)
    IN  [k \in 1..Len(ok) |-> [name |-> ok[k].entryName, content |-> ok[k].data]]

\* C1: once the scanner has run, the four summary counts add up to the number
\* of issues it returned
C1_SummaryCountsEveryIssue ==
    scans > 0 =>
        summary.critical + summary.high + summary.medium + summary.low
            = Len(issues)

C1_Witness ==
    /\ scans > 0
    /\ summary.critical > 0 /\ summary.high > 1
    /\ summary.medium > 1 /\ summary.low > 1

\* twice the deduction 10c + 5h + 2m + 0.5l
FormulaDeduction2(s) == 2 * (10 * s.critical + 5 * s.high + 2 * s.medium) + s.low

\* round(x2 / 2), a tie going away from zero
RoundHalfAwayFromZero2(x2) ==
    IF x2 >= 0 THEN (x2 + 1) \div 2 ELSE 0 - ((1 - x2) \div 2)

Clamp(v, lo, hi) == IF v < lo THEN lo ELSE IF v > hi THEN hi ELSE v

\* C2: the score handed to Analysis.create is
\* clamp(round(100 - (10c + 5h + 2m + 0.5l)), 0, 100), ties away from zero,
\* and the summary (3, 2, 0, 0) scores 60
C2_ScoreIsClampOfRound ==
    pc = "scored" =>
        /\ doc.accessibilityScore
             = Clamp(RoundHalfAwayFromZero2(200 - FormulaDeduction2(summary)), 0, 100)
        /\ summary = [critical |-> 3, high |-> 2, medium |-> 0, low |-> 0]
             => doc.accessibilityScore = 60

\* a tie below zero: 100 - deduction = -0.5 rounds to -1 in the formula
C2_Witness ==
    /\ pc = "scored"
    /\ 200 - FormulaDeduction2(summary) = -1
    /\ doc.accessibilityScore = 0

\* C3: the score handed to Analysis.create is an integer of 0..100, and it is
\* 0 whenever the deduction is 100 or more
C3_ScoreWithinRange ==
    pc = "scored" =>
        /\ doc.accessibilityScore \in 0..100
        /\ FormulaDeduction2(summary) >= 200 => doc.accessibilityScore = 0

C3_Witness ==
    /\ pc = "scored"
    /\ FormulaDeduction2(summary) > 200
    /\ doc.accessibilityScore = 0

\* (file position, line, rule position) of an issue
OrderKey(i) == << i.fileIndex, i.line, RuleIndex(i.type) >>

LexLess(a, b) ==
    \/ a[1] < b[1]
    \/ a[1] = b[1] /\ a[2] < b[2]
    \/ a[1] = b[1] /\ a[2] = b[2] /\ a[3] < b[3]

\* C4: the issue list is in file order, then ascending line, then catalog
\* order: the key of an earlier issue is strictly smaller than a later one's
C4_IssuesInScanOrder ==
    scans > 0 =>
        /\ \A i \in 1..Len(issues) :
             /\ issues[i].fileIndex \in 1..Len(files)
             /\ issues[i].file = files[issues[i].fileIndex].name
             /\ issues[i].line \in 1..Len(files[issues[i].fileIndex].content)
        /\ \A i, j \in 1..Len(issues) :
             i < j => LexLess(OrderKey(issues[i]), OrderKey(issues[j]))

\* issues of two files, of two lines of one file and of two rules on one line
C4_Witness ==
    /\ scans > 0
    /\ \E i, j \in 1..Len(issues) : issues[i].fileIndex < issues[j].fileIndex
    /\ \E i, j \in 1..Len(issues) :
         /\ issues[i].fileIndex = issues[j].fileIndex
         /\ issues[i].line < issues[j].line
    /\ \E i, j \in 1..Len(issues) :
         /\ issues[i].fileIndex = issues[j].fileIndex
         /\ issues[i].line = issues[j].line
         /\ RuleIndex(issues[i].type) < RuleIndex(issues[j].type)

\* the AI-backed path failed
AIPathFailed ==
    \/ apiKey \in {"absent", "empty"}
    \/ aiService \in {"throws", "reject", "malformed"}

\* C5: getAISuggestions never raises: once it has returned the handler has
\* gone on to Analysis.create, on every failure of the AI path the narrative
\* is the fallback of the issue list, and a 500 answer comes from
\* Analysis.create alone
C5_SuggestionsNeverRaise ==
    (suggests > 0 /\ pc \in {"awaitCreate", "done"}) =>
        /\ creates = 1
        /\ AIPathFailed => aiSuggestions = Fallback
        /\ AIPathFailed => doc.aiSuggestions = Fallback
        /\ response.status \in {0, 200, 500}
        /\ response.status = 500 => db = {}

C5_Witness ==
    /\ aiService = "reject"
    /\ pc = "done"
    /\ response.status = 200
    /\ response.body.aiSuggestions = Fallback
    /\ Len(issues) > 0

\* C6: the narrative getAISuggestions returns is never the empty string, and
\* an empty text from the service yields the fallback
C6_NarrativeNeverEmpty ==
    creates > 0 =>
        /\ aiSuggestions # EmptyString
        /\ aiService = "empty" => aiSuggestions = Fallback

\* C7: without a credential no generateContent request is issued, and the
\* narrative is the fallback
C7_NoRequestWithoutCredential ==
    apiKey \in {"absent", "empty"} =>
        /\ aiCalls = 0
        /\ prompt = NoPrompt
        /\ suggests > 0 => aiSuggestions = Fallback

C7_Witness ==
    /\ apiKey = "absent"
    /\ suggests = 1
    /\ aiCalls = 0
    /\ pc = "done"
    /\ response.status = 200
    /\ response.body.aiSuggestions = Fallback

\* C8: a request that waits for the text-generation service eventually
\* answers
C8_SuggestionStepEnds == (pc = "awaitAI") ~> (pc = "done")

\* C9: an archive that yields no file ends in 400: no scan, no suggestion,
\* no Analysis.create, nothing stored
C9_EmptyFileSetIsRejected ==
    (/\ pc # "received"
     /\ upload.file
     /\ upload.validZip
     /\ ReadableFiles(upload.entries) = << >>) =>
        /\ pc = "done"
        /\ response.status = 400
        /\ scans = 0
        /\ suggests = 0
        /\ aiCalls = 0
        /\ creates = 0
        /\ doc = NoDoc
        /\ db = {}

\* every source entry of a non-empty archive failed to read
C9_Witness ==
    /\ pc = "done"
    /\ response.status = 400
    /\ Len(upload.entries) = MaxEntries
    /\ \E k \in 1..Len(upload.entries) : IsSourceEntry(upload.entries[k])
    /\ \A k \in 1..Len(upload.entries) :
         IsSourceEntry(upload.entries[k]) /\ ~upload.entries[k].readable

\* some source entry failed to read
SomeEntryFailed ==
    \E k \in 1..Len(upload.entries) :
        IsSourceEntry(upload.entries[k]) /\ ~upload.entries[k].readable

\* C10: with an entry that fails to read, the files and the issues are those
\* of the readable entries, in order; if one is readable the request is not
\* rejected, and what it stores and returns holds exactly these issues
C10_FailedEntryIsSkipped ==
    (pc # "received" /\ SomeEntryFailed) =>
        /\ files = ReadableFiles(upload.entries)
        /\ ReadableFiles(upload.entries) # << >> =>
             /\ scans = 1
             /\ issues = analyzeAccessibility(ReadableFiles(upload.entries))
             /\ response.status # 400
             /\ response.status = 200 =>
                  /\ response.body.issues
                       = analyzeAccessibility(ReadableFiles(upload.entries))
                  /\ response.body.filesAnalyzed
                       = Len(ReadableFiles(upload.entries))
                  /\ response.body \in db

\* the first entry fails, the second is scanned and the result is complete
C10_Witness ==
    /\ Len(upload.entries) = 2
    /\ IsSourceEntry(upload.entries[1]) /\ ~upload.entries[1].readable
    /\ IsSourceEntry(upload.entries[2]) /\ upload.entries[2].readable
    /\ pc = "done"
    /\ response.status = 200
    /\ Len(response.body.issues) > 0

\* the number of issues of a severity in a list
SeverityCount(issueList, sev) ==
    Len(SelectSeq(issueList, LAMBDA i : i.severity = sev))

\* a record with the five parts of a result, its summary and score being
\* those of its own issue list
CompleteResult(d) ==
    /\ {"filesAnalyzed", "issues", "summary", "accessibilityScore",
        "aiSuggestions"} \subseteq DOMAIN d
    /\ d.summary = [critical |-> SeverityCount(d.issues, "critical"),
                    high     |-> SeverityCount(d.issues, "high"),
                    medium   |-> SeverityCount(d.issues, "medium"),
                    low      |-> SeverityCount(d.issues, "low")]
    /\ d.accessibilityScore
         = Clamp(RoundHalfAwayFromZero2(200 - FormulaDeduction2(d.summary)), 0, 100)

\* C11: a completed upload either reports an error and stores nothing, or
\* stores and returns one record with all five parts, whose issue list is the
\* whole list of the readable files and whose summary and score are computed
\* from that list; nothing is stored or returned before the request is done
C11_CompleteResultOrError ==
    /\ \A d \in db : CompleteResult(d)
    /\ pc # "done" => response = NoResponse /\ db = {}
    /\ pc = "done" =>
         \/ response.status \in {400, 500} /\ db = {}
         \/ /\ response.status = 200
            /\ db = {response.body}
            /\ CompleteResult(response.body)
            /\ response.body.issues
                 = analyzeAccessibility(ReadableFiles(upload.entries))
            /\ response.body.filesAnalyzed = Len(ReadableFiles(upload.entries))

\* a stored result with more issues than the prompt's sample
C11_Witness ==
    /\ pc = "done"
    /\ response.status = 200
    /\ response.body \in db
    /\ Len(response.body.issues) > SampleLimit
    /\ response.body.aiSuggestions = AINarrative


(***************************************************************************)
(* Two upload requests in flight together.  multer stores each upload at   *)
(* uploads/<Date.now()>-<originalname> before the handler runs; the        *)
(* handler reads that path, and removes it after Analysis.create.          *)
(***************************************************************************)
Requests == {"A", "B"}

\* the values Date.now() takes while the uploads arrive
Millis == 1..MaxMillis

OriginalNames == {"site.zip", "app.zip"}

\* the archives the two clients send
ConcArchives ==
    { << [entryName |-> Name("index", "html"), isDirectory |-> FALSE,
          readable |-> TRUE, data |-> << Img >>] >>,
      << [entryName |-> Name("App", "JSX"), isDirectory |-> FALSE,
          readable |-> TRUE, data |-> << Busy, H3 >>] >>,
      << [entryName |-> Name("style", "css"), isDirectory |-> FALSE,
          readable |-> TRUE, data |-> << Img >>] >> }

\* `${Date.now()}-${file.originalname}`
TempPath(ms, originalname) == <<ms, originalname>>

TempPaths == { TempPath(ms, n) : ms \in Millis, n \in OriginalNames }

NoSuchFile == [exists |-> FALSE, entries |-> << >>]
StoredFile(archive) == [exists |-> TRUE, entries |-> archive]

\* req.file.path
PathOf(r) == TempPath(reqs[r].ms, reqs[r].originalname)

InitConc ==
    /\ apiKey \in {"absent", "set"}
    /\ reqs \in [Requests -> [originalname : OriginalNames, ms : Millis,
                              archive : ConcArchives, pc : {"arrived"},
                              files : {<< >>}, issues : {<< >>},
                              fate : {"notCalled"}, doc : {NoDoc},
                              response : {NoResponse}]]
    /\ disk = [p \in TempPaths |-> NoSuchFile]
    /\ NoClient
    /\ db = {}
    /\ upload = [file |-> TRUE, validZip |-> TRUE, entries |-> << >>]
    /\ pc = "concurrent"
    /\ files = << >>
    /\ issues = << >>
    /\ summary = NoSummary
    /\ score = 0
    /\ aiService = "notCalled"
    /\ aiCalls = 0
    /\ aiSuggestions = EmptyString
    /\ scans = 0
    /\ creates = 0
    /\ unlinks = 0
    /\ suggests = 0
    /\ prompt = NoPrompt
    /\ doc = NoDoc
    /\ response = NoResponse

\* upload.single("project"): the disk storage writes the upload to its path
MulterStores(r) ==
    /\ reqs[r].pc = "arrived"
    /\ disk' = [disk EXCEPT ![PathOf(r)] = StoredFile(reqs[r].archive)]
    /\ reqs' = [reqs EXCEPT ![r].pc = "stored"]
    /\ UNCHANGED <<apiKey, db>>
    /\ UNCHANGED <<handlerVars, request, clientVars>>

\* the document of a request, built from what it read
ConcDoc(fl, is, narrative) ==
    MakeDoc(fl, is, Summarize(is), RawScore2(Summarize(is)), narrative)

\* the handler up to its first await, on the file now at req.file.path
ConcHandles(r) ==
    /\ reqs[r].pc = "stored"
    /\ LET stored == disk[PathOf(r)]
           fl == ExtractFiles(stored.entries)
           is == analyzeAccessibility(fl)
       IN  IF ~stored.exists
           THEN reqs' = [reqs EXCEPT ![r].pc = "done",
                           ![r].response = ErrorResponse(400, "Invalid ZIP file")]
           ELSE IF NoFiles(fl)
           THEN reqs' = [reqs EXCEPT ![r].pc = "done",
                           ![r].response = ErrorResponse(400,
                               "No HTML/JSX/JS/TS/TSX files found in the ZIP")]
           ELSE IF CredentialMissing(apiKey)
           THEN reqs' = [reqs EXCEPT ![r].pc = "awaitCreate",
                           ![r].files = fl, ![r].issues = is,
                           ![r].doc = ConcDoc(fl, is,
                                          generateFallbackSuggestions(is))]
           ELSE \E fate \in {"text", "reject"} :
                    reqs' = [reqs EXCEPT ![r].pc = "awaitAI", ![r].files = fl,
                               ![r].issues = is, ![r].fate = fate]
    /\ UNCHANGED <<apiKey, db, disk>>
    /\ UNCHANGED <<handlerVars, request, clientVars>>

\* the generateContent promise of a request settles
ConcSettles(r) ==
    /\ reqs[r].pc = "awaitAI"
    /\ reqs' = [reqs EXCEPT ![r].pc = "awaitCreate",
                  ![r].doc = ConcDoc(reqs[r].files, reqs[r].issues,
                      GetAISuggestionsResume(reqs[r].fate, reqs[r].issues).value)]
    /\ UNCHANGED <<apiKey, db, disk>>
    /\ UNCHANGED <<handlerVars, request, clientVars>>

\* Analysis.create resolves: fs.unlink(req.file.path) and res.json(analysis)
ConcCreateSucceeds(r) ==
    /\ reqs[r].pc = "awaitCreate"
    /\ db' = db \cup {reqs[r].doc}
    /\ disk' = [disk EXCEPT ![PathOf(r)] = NoSuchFile]
    /\ reqs' = [reqs EXCEPT ![r].pc = "done",
                  ![r].response = [status |-> 200, body |-> reqs[r].doc]]
    /\ UNCHANGED apiKey
    /\ UNCHANGED <<handlerVars, request, clientVars>>

\* Analysis.create rejects: the catch block answers 500
ConcCreateFails(r) ==
    /\ reqs[r].pc = "awaitCreate"
    /\ reqs' = [reqs EXCEPT ![r].pc = "done",
                  ![r].response = ErrorResponse(500, "Error analyzing project")]
    /\ UNCHANGED <<apiKey, db, disk>>
    /\ UNCHANGED <<handlerVars, request, clientVars>>

NextConc ==
    \/ \E r \in Requests : MulterStores(r)
    \/ \E r \in Requests : ConcHandles(r)
    \/ \E r \in Requests : ConcSettles(r)
    \/ \E r \in Requests : ConcCreateSucceeds(r)
    \/ \E r \in Requests : ConcCreateFails(r)

SpecConc == InitConc /\ [][NextConc]_vars

\* what a request produces when it is the only one: the answer of the
\* handler on the request's own archive
AloneOutcome(r) ==
    LET own == ReadableFiles(reqs[r].archive)
        is  == analyzeAccessibility(own)
    IN  IF own = << >>
        THEN reqs[r].response.status = 400
             /\ reqs[r].response.body.message
                    = "No HTML/JSX/JS/TS/TSX files found in the ZIP"
        ELSE \/ reqs[r].response.status = 500
             \/ /\ reqs[r].response.status = 200
                /\ reqs[r].response.body.issues = is
                /\ reqs[r].response.body.summary = Summarize(is)
                /\ reqs[r].response.body.accessibilityScore
                       = MathRound2(RawScore2(Summarize(is)))
                /\ reqs[r].response.body.filesAnalyzed = Len(own)
                /\ reqs[r].response.body.aiSuggestions
                       \in {AINarrative, generateFallbackSuggestions(is)}

\* C12: of two upload requests in flight together, each one that has been
\* answered got what it gets when run alone on its own archive, and each one
\* whose upload is stored and not yet read finds its own upload at its path
\* (no other request has overwritten or removed it)
C12_RequestsIsolated ==
    \A r \in Requests :
        /\ reqs[r].pc = "done" => AloneOutcome(r)
        /\ reqs[r].pc = "stored" => disk[PathOf(r)] = StoredFile(reqs[r].archive)

(***************************************************************************)
(* The scanner and the fallback on their own: analyzeAccessibility on a    *)
(* list of files, then generateFallbackSuggestions on the issues found.    *)
(***************************************************************************)
\* the file bodies of 1..MaxLines lines over a set of lines
Bodies(lineSet) == UNION { [1..n -> lineSet] : n \in 1..MaxLines }

SourceFile(name, content) == [name |-> name, content |-> content]

\* inputs and labels, alone or next to a file that holds a label
LabelFamily ==
    LET one(b) == SourceFile(Name("index", "html"), b)
        lab == SourceFile(Name("App", "JSX"), << Label >>)
    IN  UNION { { << one(b) >>, << lab, one(b) >>, << one(b), lab >> } :
                b \in Bodies({AriaInput, Input, Label, Hidden, HiddenText}) }

\* headings at the top of a file and around line HeadingCutoff
HeadingFamily ==
    { << SourceFile(Name("index", "html"), Blanks(offset) \o b) >> :
        offset \in {0, HeadingCutoff - 2},
        b \in Bodies({Blank, H1, H3, H1H3, Busy}) }

\* lines of every severity, in one file or split over two
SeverityFamily ==
    UNION { { IF k = Len(b)
              THEN << SourceFile(Name("index", "html"), b) >>
              ELSE << SourceFile(Name("index", "html"), Slice(b, 0, k)),
                      SourceFile(Name("App", "JSX"), Slice(b, k, Len(b))) >> :
              k \in 1..Len(b) } :
            b \in Bodies({Blank, Img, Html, EmptyAlt, H3}) }

ScanInputs == LabelFamily \cup HeadingFamily \cup SeverityFamily

InitScan ==
    /\ files \in ScanInputs
    /\ pc = "scan"
    /\ issues = << >>
    /\ aiSuggestions = EmptyString
    /\ apiKey = "absent"
    /\ upload = [file |-> TRUE, validZip |-> TRUE, entries |-> << >>]
    /\ summary = NoSummary
    /\ score = 0
    /\ aiService = "notCalled"
    /\ aiCalls = 0
    /\ scans = 0
    /\ creates = 0
    /\ db = {}
    /\ unlinks = 0
    /\ suggests = 0
    /\ prompt = NoPrompt
    /\ doc = NoDoc
    /\ response = NoResponse
    /\ reqs = << >>
    /\ disk = << >>
    /\ NoClient

\* const issues = analyzeAccessibility(files)
ScanFiles ==
    /\ pc = "scan"
    /\ issues' = analyzeAccessibility(files)
    /\ scans' = scans + 1
    /\ pc' = "scanned"
    /\ UNCHANGED <<apiKey, upload, files, summary, score, aiService, aiCalls,
                   aiSuggestions, creates, db, unlinks, suggests, prompt, doc,
                   response>>
    /\ UNCHANGED <<concVars, request, clientVars>>

\* generateFallbackSuggestions(issues)
NarrateFallback ==
    /\ pc = "scanned"
    /\ aiSuggestions' = generateFallbackSuggestions(issues)
    /\ suggests' = suggests + 1
    /\ pc' = "narrated"
    /\ UNCHANGED <<apiKey, upload, files, issues, summary, score, aiService,
                   aiCalls, scans, creates, db, unlinks, prompt, doc, response>>
    /\ UNCHANGED <<concVars, request, clientVars>>

NextScan == ScanFiles \/ NarrateFallback

SpecScan == InitScan /\ [][NextScan]_vars

\* the segments of a narrative of one kind, in order
Segments(narrative, kind) == SelectSeq(narrative, LAMBDA g : g.seg = kind)

\* the assessment the decision order gives for c critical and h high issues
\* among n issues
AssessmentBranch(n, c, h) ==
    CASE n = 0 -> "Great news!"
      [] n > 0 /\ c > 0 -> "Attention Required"
      [] n > 0 /\ c = 0 /\ h > 0 -> "Good Progress"
      [] n > 0 /\ c = 0 /\ h = 0 -> "Looking Good"

\* C15: the fallback narrative holds exactly one assessment line, and it is the
\* one the decision order (no issues, else critical, else high, else minor)
\* gives for the issue list
C15_OneAssessmentByDecisionOrder ==
    pc = "narrated" =>
        LET lines == Segments(aiSuggestions, "assessment")
        IN  /\ Len(lines) = 1
            /\ lines[1].branch
                   = AssessmentBranch(Len(issues), SeverityCount(issues, "critical"),
                                      SeverityCount(issues, "high"))

C15_Witness ==
    /\ pc = "narrated"
    /\ SeverityCount(issues, "critical") > 0
    /\ SeverityCount(issues, "high") > 0
    /\ Segments(aiSuggestions, "assessment")[1].branch = "Attention Required"

MinOf(a, b) == IF a <= b THEN a ELSE b

\* the issues of one severity, in scan order
InScanOrder(issueList, sev) == SelectSeq(issueList, LAMBDA i : i.severity = sev)

\* the first min(3, c) critical issues, then high issues for the slots left
PriorityExpected(issueList) ==
    LET crit == InScanOrder(issueList, "critical")
        high == InScanOrder(issueList, "high")
        nc   == MinOf(TopLimit, Len(crit))
        nh   == MinOf(TopLimit - nc, Len(high))
    IN  [k \in 1..(nc + nh) |-> IF k <= nc THEN crit[k] ELSE high[k - nc]]

\* C16: the priority list of the fallback has min(3, c + h) entries, the first
\* critical issues in scan order and then the first high issues for the slots
\* left, never a medium or low issue; with c + h = 0 the sentence that there
\* is none stands in its place
C16_PriorityCriticalThenHigh ==
    pc = "narrated" =>
        LET c == SeverityCount(issues, "critical")
            h == SeverityCount(issues, "high")
            expected == PriorityExpected(issues)
            listed == Segments(aiSuggestions, "priority")
            none == Segments(aiSuggestions, "noPriority")
        IN  /\ Len(listed) = MinOf(TopLimit, c + h)
            /\ Len(listed) = Len(expected)
            /\ \A k \in 1..Len(listed) :
                  /\ listed[k].idx = k
                  /\ listed[k].type = expected[k].type
                  /\ listed[k].severity = expected[k].severity
                  /\ listed[k].file = expected[k].file
                  /\ listed[k].suggestion = expected[k].suggestion
                  /\ listed[k].severity \in {"critical", "high"}
                  /\ listed[k].severity = "high" => c < TopLimit
            /\ Len(none) = (IF c + h = 0 THEN 1 ELSE 0)

C16_Witness ==
    /\ pc = "narrated"
    /\ SeverityCount(issues, "critical") = 2
    /\ SeverityCount(issues, "high") = 2
    /\ Len(Segments(aiSuggestions, "priority")) = TopLimit
    /\ Segments(aiSuggestions, "priority")[1].file
           # Segments(aiSuggestions, "priority")[2].file
    /\ Segments(aiSuggestions, "priority")[3].severity = "high"

\* no line of any file triggers any rule
NoRuleTriggers(fileList) ==
    \A f \in 1..Len(fileList) :
        \A i \in 1..Len(fileList[f].content) :
            \A r \in 1..NumRules : ~RuleFires(r, fileList[f].content, i - 1)

\* C17: when no line of any supplied file triggers any rule, the scanner
\* returns no issue, the summary is all zeros, the stored score is 100 and the
\* fallback narrative takes the "no issues" assessment
C17_CleanProjectScoresHundred ==
    (scans > 0 /\ NoRuleTriggers(ReadableFiles(upload.entries))) =>
        /\ issues = << >>
        /\ summary = [critical |-> 0, high |-> 0, medium |-> 0, low |-> 0]
        /\ score = 200
        /\ Segments(Fallback, "assessment")[1].branch = "Great news!"
        /\ creates > 0 =>
              /\ doc.issues = << >>
              /\ doc.summary = [critical |-> 0, high |-> 0, medium |-> 0, low |-> 0]
              /\ doc.accessibilityScore = 100
              /\ doc.aiSuggestions \notin {AINarrative, EmptyString} =>
                    Segments(doc.aiSuggestions, "assessment")[1].branch
                        = "Great news!"
        /\ (pc = "done" /\ response.status = 200) => response.body = doc

C17_Witness ==
    /\ pc = "done"
    /\ response.status = 200
    /\ Len(ReadableFiles(upload.entries)) = MaxEntries
    /\ NoRuleTriggers(ReadableFiles(upload.entries))
    /\ response.body.accessibilityScore = 100
    /\ response.body.aiSuggestions = generateFallbackSuggestions(<< >>)

\* the <input> elements written on a line: whether each carries aria-label or
\* aria-labelledby, and its type attribute
InputElements(line) ==
    CASE line = Input      -> << [aria |-> FALSE, type |-> "text"] >>
      [] line = Hidden     -> << [aria |-> FALSE, type |-> "hidden"] >>
      [] line = AriaInput  -> << [aria |-> TRUE, type |-> ""] >>
      [] line = HiddenText -> << [aria |-> FALSE, type |-> "hidden"],
                                 [aria |-> FALSE, type |-> "text"] >>
      [] line = Busy       -> << [aria |-> FALSE, type |-> ""] >>
      [] OTHER             -> << >>

\* the line holds an <input> without aria-label/aria-labelledby that is not of
\* type hidden, submit or button
HasUnlabelledInput(line) ==
    \E k \in 1..Len(InputElements(line)) :
        /\ ~InputElements(line)[k].aria
        /\ InputElements(line)[k].type \notin {"hidden", "submit", "button"}

\* some line among i-2 .. i+2 of the file (1-based, clipped to the file)
\* contains <label
LabelNearby(lines, i) ==
    \E j \in (i - 2)..(i + 2) :
        j >= 1 /\ j <= Len(lines) /\ "label" \in lines[j].facts

\* the issues of one rule reported for line i of file f
IssuesAt(f, i, type) ==
    SelectSeq(issues, LAMBDA x : x.fileIndex = f /\ x.line = i /\ x.type = type)

\* C18: a high Missing Form Label issue is reported for line i of a file exactly
\* when the line holds an <input> without aria-label/aria-labelledby that is
\* not of type hidden/submit/button and no line i-2 .. i+2 of the same file
\* contains <label
C18_FormLabelExactlyWhenUnlabelled ==
    pc # "scan" =>
        \A f \in 1..Len(files) :
            \A i \in 1..Len(files[f].content) :
                LET found == IssuesAt(f, i, "Missing Form Label")
                IN  /\ Len(found) <= 1
                    /\ \A k \in 1..Len(found) : found[k].severity = "high"
                    /\ Len(found) = 1
                         <=> /\ HasUnlabelledInput(files[f].content[i])
                             /\ ~LabelNearby(files[f].content, i)

\* the levels of the headings written on a line
HeadingLevels(line) ==
    CASE line = H1   -> {1}
      [] line = H3   -> {3}
      [] line = H1H3 -> {1, 3}
      [] line = Busy -> {4}
      [] OTHER       -> {}

\* C19: a low Heading Hierarchy issue is reported for a line exactly when a
\* heading of level h3 to h6 appears on the line and the line is among the
\* first 50 of its file
C19_HeadingExactlyWhenDeepAndEarly ==
    pc # "scan" =>
        \A f \in 1..Len(files) :
            \A i \in 1..Len(files[f].content) :
                LET found == IssuesAt(f, i, "Heading Hierarchy")
                IN  /\ Len(found) <= 1
                    /\ \A k \in 1..Len(found) : found[k].severity = "low"
                    /\ Len(found) = 1
                         <=> /\ \E h \in HeadingLevels(files[f].content[i]) :
                                    h >= 3 /\ h <= 6
                             /\ i <= HeadingCutoff

\* the issues reported for line i of file f, of any rule
IssuesOnLine(f, i) ==
    SelectSeq(issues, LAMBDA x : x.fileIndex = f /\ x.line = i)

\* the rules whose test succeeds on line i of file f, each taken on its own
RulesFiring(f, i) ==
    { r \in 1..NumRules : RuleFires(r, files[f].content, i - 1) }

\* C20: for each file and line every rule contributes at most one issue, a
\* line on which k rules fire yields exactly k issues, one per firing rule,
\* and all of them carry the file name, the line number (within the file)
\* and the trimmed line as code
C20_OneIssuePerFiringRule ==
    pc # "scan" =>
        /\ \A k \in 1..Len(issues) :
              /\ issues[k].fileIndex \in 1..Len(files)
              /\ issues[k].line \in 1..Len(files[issues[k].fileIndex].content)
        /\ \A f \in 1..Len(files) :
              \A i \in 1..Len(files[f].content) :
                  LET here == IssuesOnLine(f, i)
                  IN  /\ Len(here) = Cardinality(RulesFiring(f, i))
                      /\ \A r \in 1..NumRules :
                            Len(IssuesAt(f, i, RuleTypes[r]))
                                = (IF r \in RulesFiring(f, i) THEN 1 ELSE 0)
                      /\ \A k \in 1..Len(here) :
                            /\ here[k].file = files[f].name
                            /\ here[k].line = i
                            /\ here[k].code = Trim(files[f].content[i])

C20_Witness ==
    /\ pc = "scanned"
    /\ \E f \in 1..Len(files) :
          \E i \in 2..Len(files[f].content) :
              /\ Cardinality(RulesFiring(f, i)) = NumRules - 1
              /\ Len(IssuesOnLine(f, i)) = NumRules - 1
              /\ Cardinality(RulesFiring(f, i - 1)) = 1

\* C21: one call of getAISuggestions invokes generateContent at most once;
\* after the request has failed the call has returned the fallback and no
\* further request has been issued
C21_NoRetry ==
    /\ suggests <= 1
    /\ aiCalls <= suggests
    /\ (aiService \in {"reject", "malformed"} /\ pc \in {"awaitCreate", "done"}) =>
          /\ aiCalls = 1
          /\ aiSuggestions = Fallback

C21_Witness ==
    /\ aiService = "reject"
    /\ pc = "awaitCreate"
    /\ aiCalls = 1
    /\ doc.aiSuggestions = Fallback
    /\ Len(issues) > SampleLimit

\* the position in the issue list where a type occurs first
FirstOccurrence(issueList, type) ==
    CHOOSE k \in 1..Len(issueList) :
        /\ issueList[k].type = type
        /\ \A j \in 1..(k - 1) : issueList[j].type # type

\* C22: the prompt handed to generateContent carries the counts of the issue
\* list, each issue type present once in order of first occurrence, and as
\* its sample the first min(6, n) issues of the list
C22_PromptFromIssueList ==
    aiCalls > 0 =>
        /\ prompt.total = Len(issues)
        /\ prompt.critical = SeverityCount(issues, "critical")
        /\ prompt.high = SeverityCount(issues, "high")
        /\ prompt.medium = SeverityCount(issues, "medium")
        /\ prompt.low = SeverityCount(issues, "low")
        /\ {prompt.issueTypes[k] : k \in 1..Len(prompt.issueTypes)}
               = {issues[k].type : k \in 1..Len(issues)}
        /\ \A a, b \in 1..Len(prompt.issueTypes) :
              a < b => FirstOccurrence(issues, prompt.issueTypes[a])
                           < FirstOccurrence(issues, prompt.issueTypes[b])
        /\ Len(prompt.sampleIssues) = MinOf(SampleLimit, Len(issues))
        /\ \A k \in 1..Len(prompt.sampleIssues) : prompt.sampleIssues[k] = issues[k]

C22_Witness ==
    /\ aiCalls = 1
    /\ pc = "awaitAI"
    /\ Len(issues) > SampleLimit
    /\ Len(prompt.sampleIssues) = SampleLimit
    /\ Len(prompt.issueTypes) < Len(issues)
    /\ prompt.sampleIssues[1].severity # "critical"

\* C23: the stored score is 100 exactly when the summary has no critical, high
\* or medium issue and at most one low issue; every other summary scores at
\* most 99
C23_HundredIffAtMostOneLow ==
    pc = "scored" =>
        /\ doc.accessibilityScore = 100
             <=> /\ summary.critical = 0
                 /\ summary.high = 0
                 /\ summary.medium = 0
                 /\ summary.low <= 1
        /\ doc.accessibilityScore <= 100
        /\ summary.low >= 2 => doc.accessibilityScore <= 99

C23_Witness ==
    /\ pc = "scored"
    /\ summary = [critical |-> 0, high |-> 0, medium |-> 0, low |-> 1]
    /\ score = 199
    /\ doc.accessibilityScore = 100

(***************************************************************************)
(* The stored analyses and the routes that read and delete them.  protect  *)
(* has put the authenticated user in req.user before a handler runs.       *)
(***************************************************************************)
Users == {"ann", "bob"}

\* req.params.id: the _id of an analysis ever stored, a well-formed id that
\* was never given out (0), or a string that is no ObjectId
NeverStoredId == 0
MalformedId == -1
IdParams == (1..MaxAnalyses) \cup {NeverStoredId, MalformedId}

\* the document Analysis.create stores for req.user
StoredAnalysis(id, u) ==
    [_id |-> id, userId |-> u, createdAt |-> id, issues |-> "issues"]

\* .select("-issues")
WithoutIssues(d) == [_id |-> d._id, userId |-> d.userId, createdAt |-> d.createdAt]

RECURSIVE NewestFirst(_)
\* .sort({ createdAt: -1 })
NewestFirst(docs) ==
    IF docs = {} THEN << >>
    ELSE LET newest == CHOOSE d \in docs : \A e \in docs : e.createdAt <= d.createdAt
         IN  << newest >> \o NewestFirst(docs \ {newest})

\* the query without the userId condition
FindByIdOnly(store, id, u) == { d \in store : d._id = id }

\* the documents matching { _id: req.params.id, userId: req.user._id }
FindOwned(store, id, u) == { d \in store : d._id = id /\ d.userId = u }

\* Analysis.find({ userId: req.user._id }).sort(...).select("-issues")
HistoryOf(store, u) ==
    LET own == NewestFirst({ d \in store : d.userId = u })
    IN  [k \in 1..Len(own) |-> WithoutIssues(own[k])]

\* what a handler was asked, with the stored set it found and whether the
\* database query failed
Request(method, u, id, failed) ==
    [method |-> method, user |-> u, id |-> id, before |-> db, failed |-> failed]

InitStore ==
    /\ db = {}
    /\ creates = 0
    /\ request = NoRequest
    /\ response = NoResponse
    /\ apiKey = "absent"
    /\ upload = [file |-> TRUE, validZip |-> TRUE, entries |-> << >>]
    /\ pc = "store"
    /\ files = << >>
    /\ issues = << >>
    /\ summary = NoSummary
    /\ score = 0
    /\ aiService = "notCalled"
    /\ aiCalls = 0
    /\ aiSuggestions = EmptyString
    /\ scans = 0
    /\ unlinks = 0
    /\ suggests = 0
    /\ prompt = NoPrompt
    /\ doc = NoDoc
    /\ reqs = << >>
    /\ disk = << >>
    /\ user = << >>
    /\ localStorage = << >>
    /\ lastLogin = << >>
    /\ analyses = << >>
    /\ loading = FALSE
    /\ deletes = {}

\* what the store routes leave alone
storeUnchanged == <<apiKey, upload, pc, files, issues, summary, score, aiService,
                    aiCalls, aiSuggestions, scans, unlinks, suggests, prompt,
                    doc, concVars, clientVars>>

\* POST /upload by u, as far as the store sees it: Analysis.create({userId: req.user._id, ...})
AnalysisCreate(u) ==
    /\ creates < MaxAnalyses
    /\ creates' = creates + 1
    /\ db' = db \cup {StoredAnalysis(creates + 1, u)}
    /\ request' = Request("POST /upload", u, NeverStoredId, FALSE)
    /\ response' = [status |-> 200, body |-> StoredAnalysis(creates + 1, u)]
    /\ UNCHANGED storeUnchanged

\* GET /history
GetHistory(u) ==
    /\ \/ /\ request' = Request("GET /history", u, NeverStoredId, FALSE)
          /\ response' = [status |-> 200, body |-> HistoryOf(db, u)]
       \/ /\ request' = Request("GET /history", u, NeverStoredId, TRUE)
          /\ response' = ErrorResponse(500, "Error fetching history")
    /\ UNCHANGED <<db, creates>>
    /\ UNCHANGED storeUnchanged

\* GET /:id
GetAnalysis(u, id) ==
    /\ \/ /\ id # MalformedId
          /\ request' = Request("GET /:id", u, id, FALSE)
          /\ IF FindOwned(db, id, u) = {}
             THEN response' = ErrorResponse(404, "Analysis not found")
             ELSE response' = [status |-> 200,
                               body |-> CHOOSE d \in FindOwned(db, id, u) : TRUE]
       \/ /\ request' = Request("GET /:id", u, id, TRUE)
          /\ response' = ErrorResponse(500, "Error fetching analysis")
    /\ UNCHANGED <<db, creates>>
    /\ UNCHANGED storeUnchanged

\* DELETE /:id; the handler has no catch, so when the query fails its promise
\* rejects: the router either leaves the request unanswered or hands the
\* error to the error middleware of the server, which answers 500
DeleteAnalysis(u, id) ==
    /\ \/ /\ id # MalformedId
          /\ request' = Request("DELETE /:id", u, id, FALSE)
          /\ db' = db \ FindOwned(db, id, u)
          /\ IF FindOwned(db, id, u) = {}
             THEN response' = ErrorResponse(404, "Analysis not found")
             ELSE response' = [status |-> 200,
                               body |-> [message |-> "Analysis deleted successfully"]]
       \/ /\ request' = Request("DELETE /:id", u, id, TRUE)
          /\ response' \in {NoResponse, ErrorResponse(500, "Something went wrong!")}
          /\ UNCHANGED db
    /\ UNCHANGED creates
    /\ UNCHANGED storeUnchanged

NextStore ==
    \/ \E u \in Users : AnalysisCreate(u)
    \/ \E u \in Users : GetHistory(u)
    \/ \E u \in Users, id \in IdParams : GetAnalysis(u, id)
    \/ \E u \in Users, id \in IdParams : DeleteAnalysis(u, id)

SpecStore == InitStore /\ [][NextStore]_vars

\* the request was a get or a delete aimed at an analysis of another user
AimedAtAnother ==
    /\ request.method \in {"GET /:id", "DELETE /:id"}
    /\ \E d \in request.before : d._id = request.id /\ d.userId # request.user

\* history and get return only analyses of the requester, and a delete
\* removes at most the one analysis with that id owned by the requester
OnlyOwnAnalyses ==
    /\ (request.method = "GET /history" /\ response.status = 200) =>
          \A k \in 1..Len(response.body) : response.body[k].userId = request.user
    /\ (request.method = "GET /:id" /\ response.status = 200) =>
          /\ response.body.userId = request.user
          /\ response.body._id = request.id
    /\ request.method \in {"GET /history", "GET /:id"} => db = request.before
    /\ request.method = "DELETE /:id" =>
          /\ db \subseteq request.before
          /\ Cardinality(request.before \ db) <= 1
          /\ \A d \in request.before \ db :
                d._id = request.id /\ d.userId = request.user

\* C24: history and get return only the requester's analyses, delete removes
\* at most the requester's analysis with that id, and a get or delete aimed at
\* another user's analysis answers 404 and leaves the stored set unchanged
C24_OwnershipIsolation ==
    /\ OnlyOwnAnalyses
    /\ AimedAtAnother => response.status = 404 /\ db = request.before

\* C24 as amended: the same, with the 404 answer given whenever the database
\* query completes; when the query fails the request is answered 500 or not
\* at all, and the stored set is unchanged all the same
C24_OwnershipIsolationWhenQueried ==
    /\ OnlyOwnAnalyses
    /\ AimedAtAnother =>
          /\ db = request.before
          /\ ~request.failed => response.status = 404
          /\ request.failed => response.status \in {500, 0}
          /\ (request.failed /\ request.method = "GET /:id") => response.status = 500

C24_Witness ==
    /\ request.method = "DELETE /:id"
    /\ AimedAtAnother
    /\ ~request.failed
    /\ response.status = 404
    /\ Cardinality(db) = MaxAnalyses
    /\ \E d \in db : d.userId = request.user

(***************************************************************************)
(* The History page of one signed-in user.  fetchHistory runs once on      *)
(* mount; each handleDelete call closes over the analyses of the render    *)
(* it was created in, awaits its fetch and then calls setAnalyses.         *)
(***************************************************************************)
PageUser == "ann"

\* analyses.filter((a) => a._id !== id)
FilterOut(list, id) == SelectSeq(list, LAMBDA a : a._id # id)

\* the _id values of a list
IdsOf(list) == { list[k]._id : k \in 1..Len(list) }

InitHistory ==
    /\ \E n \in 0..MaxAnalyses :
          db = { StoredAnalysis(i, PageUser) : i \in 1..n }
    /\ analyses = << >>
    /\ loading = TRUE
    /\ deletes = {}
    /\ pc = "history"
    /\ creates = 0
    /\ request = NoRequest
    /\ response = NoResponse
    /\ apiKey = "absent"
    /\ upload = [file |-> TRUE, validZip |-> TRUE, entries |-> << >>]
    /\ files = << >>
    /\ issues = << >>
    /\ summary = NoSummary
    /\ score = 0
    /\ aiService = "notCalled"
    /\ aiCalls = 0
    /\ aiSuggestions = EmptyString
    /\ scans = 0
    /\ unlinks = 0
    /\ suggests = 0
    /\ prompt = NoPrompt
    /\ doc = NoDoc
    /\ reqs = << >>
    /\ disk = << >>
    /\ user = << >>
    /\ localStorage = << >>
    /\ lastLogin = << >>

\* what the History page leaves alone
historyUnchanged == <<apiKey, upload, pc, files, issues, summary, score,
                      aiService, aiCalls, aiSuggestions, scans, creates,
                      unlinks, suggests, prompt, doc, response, concVars,
                      request, user, localStorage, lastLogin>>

\* fetchHistory: the fetch resolves with the list, or fails (setError)
FetchHistoryReturns ==
    /\ loading
    /\ \/ analyses' = HistoryOf(db, PageUser)
       \/ UNCHANGED analyses
    /\ loading' = FALSE
    /\ UNCHANGED <<db, deletes>>
    /\ UNCHANGED historyUnchanged

\* handleDelete(id) up to its await, window.confirm accepted (declined, the
\* call returns at once); the call keeps the analyses of its render
HandleDelete(id) ==
    /\ ~loading
    /\ id \in IdsOf(analyses)
    /\ Cardinality(deletes) < MaxDeletes
    /\ deletes' = deletes \cup {[call |-> Cardinality(deletes) + 1, id |-> id,
                                 captured |-> analyses, state |-> "sent"]}
    /\ UNCHANGED <<db, analyses, loading>>
    /\ UNCHANGED historyUnchanged

\* the call c with its state changed
Moved(c, state) ==
    (deletes \ {c}) \cup {[call |-> c.call, id |-> c.id, captured |-> c.captured,
                           state |-> state]}

\* the server handles DELETE /:id of a call: removed (200), not found (404),
\* or the request fails
ServerHandlesDelete(c) ==
    /\ c \in deletes
    /\ c.state = "sent"
    /\ \/ /\ db' = db \ FindOwned(db, c.id, PageUser)
          /\ deletes' = Moved(c, IF FindOwned(db, c.id, PageUser) = {}
                                 THEN "notOk" ELSE "ok")
       \/ /\ UNCHANGED db
          /\ deletes' = Moved(c, "notOk")
    /\ UNCHANGED <<analyses, loading>>
    /\ UNCHANGED historyUnchanged

\* the fetch of a call resolves with response.ok:
\* setAnalyses(analyses.filter((a) => a._id !== id))
DeleteSucceeds(c) ==
    /\ c \in deletes
    /\ c.state = "ok"
    /\ analyses' = FilterOut(c.captured, c.id)
    /\ deletes' = Moved(c, "deleted")
    /\ UNCHANGED <<db, loading>>
    /\ UNCHANGED historyUnchanged

\* the fetch of a call fails or resolves with !response.ok: alert(err.message)
DeleteFails(c) ==
    /\ c \in deletes
    /\ c.state = "notOk"
    /\ deletes' = Moved(c, "alerted")
    /\ UNCHANGED <<db, analyses, loading>>
    /\ UNCHANGED historyUnchanged

NextHistory ==
    \/ FetchHistoryReturns
    \/ \E id \in 1..MaxAnalyses : HandleDelete(id)
    \/ \E c \in deletes : ServerHandlesDelete(c)
    \/ \E c \in deletes : DeleteSucceeds(c)
    \/ \E c \in deletes : DeleteFails(c)

SpecHistory == InitHistory /\ [][NextHistory]_vars

\* C25: once a delete of an analysis has succeeded, the analysis is absent
\* from the displayed list, whatever other handleDelete calls were in flight
C25_DeletedStaysAbsent ==
    \A c \in deletes : c.state = "deleted" => c.id \notin IdsOf(analyses)

(***************************************************************************)
(* AuthProvider.  A JavaScript object is a record whose fields may hold    *)
(* undefined; JSON.stringify leaves such fields out, so the stored text is *)
(* the set of the remaining key/value pairs, and JSON.parse builds the     *)
(* object with exactly those keys.                                         *)
(***************************************************************************)
Undefined == "undefined"

\* null
Null == [null |-> TRUE]

\* the objects login is called with
UserObjects ==
    [name : {"ann", "bob", "eve"}, token : {"t1", "t2", "t3"},
     role : {"admin", "member", Undefined}]

\* JSON.stringify(userData)
Stringify(object) ==
    [json |-> { <<k, object[k]>> : k \in { f \in DOMAIN object : object[f] # Undefined } }]

\* JSON.parse(userData)
Parse(text) ==
    [k \in { p[1] : p \in text.json } |-> (CHOOSE p \in text.json : p[1] = k)[2]]

\* localStorage without / with the "user" entry
NoItem == [has |-> FALSE, item |-> [json |-> {}]]
Item(text) == [has |-> TRUE, item |-> text]

\* useState(() => { const userData = localStorage.getItem("user");
\*                  return userData ? JSON.parse(userData) : null; })
InitialUser(storage) == IF storage.has THEN Parse(storage.item) ELSE Null

NeverLoggedIn == [called |-> FALSE, arg |-> Null]

\* the provider mounts on what an earlier session left in localStorage
InitAuth ==
    /\ localStorage \in {NoItem} \cup { Item(Stringify(u)) : u \in UserObjects }
    /\ user = InitialUser(localStorage)
    /\ loading = TRUE
    /\ lastLogin = NeverLoggedIn
    /\ pc = "auth"
    /\ analyses = << >>
    /\ deletes = {}
    /\ db = {}
    /\ creates = 0
    /\ request = NoRequest
    /\ response = NoResponse
    /\ apiKey = "absent"
    /\ upload = [file |-> TRUE, validZip |-> TRUE, entries |-> << >>]
    /\ files = << >>
    /\ issues = << >>
    /\ summary = NoSummary
    /\ score = 0
    /\ aiService = "notCalled"
    /\ aiCalls = 0
    /\ aiSuggestions = EmptyString
    /\ scans = 0
    /\ unlinks = 0
    /\ suggests = 0
    /\ prompt = NoPrompt
    /\ doc = NoDoc
    /\ reqs = << >>
    /\ disk = << >>

\* what AuthProvider leaves alone
authUnchanged == <<apiKey, upload, pc, files, issues, summary, score, aiService,
                   aiCalls, aiSuggestions, scans, creates, db, unlinks,
                   suggests, prompt, doc, response, concVars, request,
                   analyses, deletes>>

\* useEffect(() => { setLoading(false); }, [])
EffectRuns ==
    /\ loading
    /\ loading' = FALSE
    /\ UNCHANGED <<user, localStorage, lastLogin>>
    /\ UNCHANGED authUnchanged

\* login(userData)
Login(userData) ==
    /\ localStorage' = Item(Stringify(userData))
    /\ user' = userData
    /\ lastLogin' = [called |-> TRUE, arg |-> userData]
    /\ UNCHANGED loading
    /\ UNCHANGED authUnchanged

\* logout with the entry left in localStorage
LogoutStateOnly ==
    /\ user' = Null
    /\ UNCHANGED <<localStorage, lastLogin, loading>>
    /\ UNCHANGED authUnchanged

\* logout()
Logout ==
    /\ localStorage' = NoItem
    /\ user' = Null
    /\ UNCHANGED <<lastLogin, loading>>
    /\ UNCHANGED authUnchanged

\* the page is loaded again: the provider mounts on the localStorage it finds
Remount ==
    /\ user' = InitialUser(localStorage)
    /\ loading' = TRUE
    /\ UNCHANGED <<localStorage, lastLogin>>
    /\ UNCHANGED authUnchanged

NextAuth ==
    \/ EffectRuns
    \/ \E u \in UserObjects : Login(u)
    \/ Logout
    \/ Remount

SpecAuth == InitAuth /\ [][NextAuth]_vars

\* C26: the user state is null exactly when localStorage has no "user" entry;
\* otherwise the entry is the JSON of the current user, which is the JSON of
\* the argument of the most recent login when there was one
C26_UserMatchesStorage ==
    /\ user = Null <=> ~localStorage.has
    /\ localStorage.has =>
          /\ localStorage.item = Stringify(user)
          /\ lastLogin.called => localStorage.item = Stringify(lastLogin.arg)
    /\ (lastLogin.called /\ user # Null) =>
          \A k \in DOMAIN user : user[k] = lastLogin.arg[k]

C26_Witness ==
    /\ lastLogin.called
    /\ localStorage.has
    /\ user # Null
    /\ user # lastLogin.arg
    /\ ~loading

\* C27: fs.unlink(req.file.path) is issued exactly when Analysis.create has
\* succeeded, once, with the record stored and by the time the 200 answer is
\* sent; on a 400 or 500 answer no unlink has been issued, so the uploaded
\* file is still in the uploads directory
C27_UnlinkOnlyAfterCreate ==
    /\ unlinks <= 1
    /\ unlinks = 1 <=> (pc = "done" /\ response.status = 200)
    /\ unlinks = 1 => (creates = 1 /\ db = {doc})
    /\ (pc = "done" /\ response.status \in {400, 500}) => (unlinks = 0 /\ db = {})
    /\ pc # "done" => unlinks = 0

C27_Witness ==
    /\ pc = "done"
    /\ upload.file
    /\ response.status = 200
    /\ unlinks = 1
    /\ aiService = "malformed"
====
